---- MODULE Spec2Model ----
(***************************************************************************)
(* A model of mkweather (src/main.py): the quiz form's validate, the       *)
(* forecast fetcher, the activity tip generator and the two request        *)
(* handlers.                                                               *)
(*                                                                         *)
(* Conventions.  An optional value (a session key that may be unset, a     *)
(* Python None) is a set with at most one element: {} is "unset", {v} is   *)
(* "set to v".  A message built by an f-string is the tuple of its parts.  *)
(* Coordinates are kept in hundredths of a degree, temperatures in tenths  *)
(* of a degree Fahrenheit and hundredths of a kelvin.                      *)
(***************************************************************************)
EXTENDS Integers, Sequences, FiniteSets, TLC

VARIABLES
    session,   \* flask.session: the per-client key/value store
    req,       \* the HTTP request waiting to be handled
    resp,      \* the response to the last handled request (with its form)
    call,      \* a direct call of get_forecast or get_activity_tips
    out        \* what that call returned

vars == <<session, req, resp, call, out>>

(***************************************************************************)
(* places.py: the location catalog.                                        *)
(***************************************************************************)
USA == "United States of America"

\* Country display name -> ISO 3166 alpha-2 code, lowercase.  "Atlantis" is
\* a catalog entry whose code is blank: the data defect validate guards.
COUNTRY_TO_ISO ==
    [c \in {USA, "France", "Germany", "Atlantis"} |->
        CASE c = USA       -> "us"
          [] c = "France"  -> "fr"
          [] c = "Germany" -> "de"
          [] OTHER         -> ""]

\* U.S. state name -> its valid city names.
us_cities ==
    [s \in {"Texas", "Ohio"} |->
        IF s = "Texas" THEN {"Dallas", "Austin"} ELSE {"Columbus"}]

country_choices == {""} \cup DOMAIN COUNTRY_TO_ISO

state_choices == {""} \cup DOMAIN us_cities

(***************************************************************************)
(* String and number conversions of the Python runtime, on the strings    *)
(* the model submits.                                                      *)
(***************************************************************************)
\* str.strip(): leading and trailing whitespace removed.
Strip(s) ==
    CASE s = " Paris " -> "Paris"
      [] s = "   "     -> ""
      [] OTHER         -> s

\* str.lower().
Lower(s) ==
    CASE s = "FR" -> "fr"
      [] s = "DE" -> "de"
      [] s = "US" -> "us"
      [] OTHER    -> s

\* IntegerField.process_formdata: int(raw), {} when int() raises ValueError.
ParseInt(raw) ==
    CASE raw = "40"  -> {40}
      [] raw = "85"  -> {85}
      [] OTHER       -> {}

\* float(text) in hundredths, {} when float() raises ValueError.
ParseFloat(text) ==
    CASE text = "48.85"  -> {4885}
      [] text = "2.35"   -> {235}
      [] text = "32.78"  -> {3278}
      [] text = "-96.80" -> {0 - 9680}
      [] OTHER           -> {}

(***************************************************************************)
(* Values.                                                                 *)
(***************************************************************************)
Fields == {"country", "state", "city", "user_hot", "user_cold"}

\* A 58-character place name, longer than the city field allows.
LongCity == "Llanfairpwllgwyngyllgogerychwyrndrobwllllantysiliogogogoch"

\* The raw form data a browser may post.
Submissions ==
    [country   : {"", USA, "France", "Atlantis", "Narnia"},
     state     : {"", "Texas"},
     city      : {"", "Dallas", " Paris ", LongCity},
     user_hot  : {"", "abc", "40", "85"},
     user_cold : {"", "40", "85"}]

\* What the geocoding collaborator may answer.  kind: the transport outcome;
\* shape: the JSON value; cand: the first candidate; address, country_code,
\* lat, lon: its members ("absent": no such key, "null": JSON null).
NoGeo ==
    [kind |-> "not_called", shape |-> "-", cand |-> "-", address |-> "-",
     country_code |-> "-", lat |-> "-", lon |-> "-"]

GeoFailures ==
    {[NoGeo EXCEPT !.kind = k] : k \in {"timeout", "http_error", "not_json"}}

GeoOddShapes ==
    {[NoGeo EXCEPT !.kind = "json", !.shape = s] :
        s \in {"null", "empty_list", "empty_obj", "obj"}}
    \cup {[NoGeo EXCEPT !.kind = "json", !.shape = "list", !.cand = "str"]}

CoordTexts == {"absent", "null", "abc", "48.85", "2.35"}

GeoCandidates ==
    {[kind |-> "json", shape |-> "list", cand |-> "obj", address |-> a,
      country_code |-> cc, lat |-> la, lon |-> lo] :
        a \in {"obj"}, cc \in {"absent", "null", "fr", "FR", "de", "us"},
        la \in CoordTexts, lo \in CoordTexts}
    \cup
    {[kind |-> "json", shape |-> "list", cand |-> "obj", address |-> a,
      country_code |-> "-", lat |-> la, lon |-> lo] :
        a \in {"absent", "null"}, la \in CoordTexts, lo \in CoordTexts}

GeoOutcomes == GeoFailures \cup GeoOddShapes \cup GeoCandidates

SessionKeys ==
    {"lat", "lon", "city", "country", "state", "user_hot", "user_cold"}

EmptySession == [k \in SessionKeys |-> {}]

NoErrors == [f \in Fields |-> <<>>]

AddError(errors, f, message) == [errors EXCEPT ![f] = Append(@, message)]

\* What validate hands back: its return value ("True", "False", or "raise"
\* with the exception's name), the fields' error lists, the session as the
\* call left it, and the rules it evaluated, in order.
Result(ret, exc, errors, sess, rules) ==
    [ret |-> ret, exc |-> exc, errors |-> errors, session |-> sess,
     rules |-> rules]

(***************************************************************************)
(* WeatherQuizForm.validate, last step first.  Each step takes the         *)
(* context c: the stripped fields, the thresholds, the geocoder's answer   *)
(* g, the session, the errors and the rules evaluated so far.              *)
(***************************************************************************)
\* STORE IN SESSION: the five assignments inside try/except (KeyError,
\* ValueError).  A key assigned before the exception stays assigned.
StoreInSession(c) ==
    LET rules == Append(c.rules, "store")
        fail(sess) ==
            Result("False", "",
                   AddError(c.errors, "city",
                            <<"Error storing location coordinates.">>),
                   sess, rules)
        lat == ParseFloat(c.g.lat)
        lon == ParseFloat(c.g.lon)
        s1  == [c.session EXCEPT !["lat"] = lat]
        s2  == [s1 EXCEPT !["lon"] = lon, !["city"] = {c.city},
                          !["country"] = {c.country}, !["state"] = {c.state}]
    IN  CASE c.g.lat = "absent" -> fail(c.session)
          [] c.g.lat = "null"   ->
                Result("raise", "TypeError", c.errors, c.session, rules)
          [] lat = {}           -> fail(c.session)
          [] c.g.lon = "absent" -> fail(s1)
          [] c.g.lon = "null"   ->
                Result("raise", "TypeError", c.errors, s1, rules)
          [] lon = {}           -> fail(s1)
          [] OTHER              -> Result("True", "", c.errors, s2, rules)

\* COUNTRY_TO_ISO.get(country): {} when the name has no entry.
ExpectedCode(country) ==
    IF country \in DOMAIN COUNTRY_TO_ISO THEN {COUNTRY_TO_ISO[country]} ELSE {}

\* The first candidate's address.country_code, lowercased; outside the try
\* block, so what these lines raise leaves validate.
CountryCrossCheck(c) ==
    LET rules == Append(c.rules, "cross_check")
        raise(exc) == Result("raise", exc, c.errors, c.session, rules)
        geo_country_code ==
            IF c.g.address = "absent" \/ c.g.country_code = "absent"
            THEN "" ELSE Lower(c.g.country_code)
        expected_code == ExpectedCode(c.country)
    IN  CASE c.g.shape = "obj"          -> raise("KeyError")
          [] c.g.cand = "str"           -> raise("AttributeError")
          [] c.g.address = "null"       -> raise("AttributeError")
          [] c.g.address = "obj" /\ c.g.country_code = "null"
                                        -> raise("AttributeError")
          [] c.country # USA /\ (expected_code = {} \/ expected_code = {""})
                -> Result("False", "",
                          AddError(c.errors, "city",
                              <<"Country validation configuration error.">>),
                          c.session, rules)
          [] c.country # USA /\ expected_code # {geo_country_code}
                -> Result("False", "",
                          AddError(c.errors, "city",
                              <<c.city, " is not a city in ", c.country, ". ">>),
                          c.session, rules)
          [] OTHER -> StoreInSession([c EXCEPT !.rules = rules])

\* GEOCODING: the request inside try/except Exception, then the empty check.
Geocoding(c) ==
    LET rules == Append(c.rules, "geocoding")
    IN  CASE c.g.kind \in {"timeout", "http_error", "not_json"}
                -> Result("False", "",
                          AddError(c.errors, "city",
                              <<"Error validating location. Please try again.">>),
                          c.session, rules)
          [] c.g.shape \in {"null", "empty_list", "empty_obj"}
                -> Result("False", "",
                          AddError(c.errors, "city",
                              <<c.city, " not found in ", c.country, ".">>),
                          c.session, rules)
          [] OTHER -> CountryCrossCheck([c EXCEPT !.rules = rules])

\* us_cities.get(state, []).
ValidCities(state) ==
    IF state \in DOMAIN us_cities THEN us_cities[state] ELSE {}

\* USA CITY <-> STATE CHECK.
CityRule(c) ==
    LET rules == Append(c.rules, "city_membership")
    IN  IF c.country = USA /\ c.city \notin ValidCities(c.state)
        THEN Result("False", "",
                    AddError(c.errors, "city",
                        <<c.city, " is not a valid city in ", c.state,
                          ". If it is, enter the nearest major city.">>),
                    c.session, rules)
        ELSE Geocoding([c EXCEPT !.rules = rules])

\* TemperatureRule with the comparison made strict: equal thresholds pass.
TemperatureRule_Strict(c) ==
    LET rules == Append(c.rules, "threshold_order")
    IN  IF c.user_hot < c.user_cold
        THEN Result("False", "",
                    AddError(c.errors, "user_hot",
                        <<"Hot temperature must be greater than Cold temperature.">>),
                    c.session, rules)
        ELSE CityRule([c EXCEPT !.rules = rules])

\* TemperatureRule with its `return False` lost: the error is appended and
\* validation goes on to the next rule.
TemperatureRule_NoReturn(c) ==
    LET rules == Append(c.rules, "threshold_order")
    IN  IF c.user_hot <= c.user_cold
        THEN CityRule([c EXCEPT !.rules = rules,
                        !.errors = AddError(c.errors, "user_hot",
                            <<"Hot temperature must be greater than Cold temperature.">>)])
        ELSE CityRule([c EXCEPT !.rules = rules])

\* TEMPERATURE RULE.
TemperatureRule(c) ==
    LET rules == Append(c.rules, "threshold_order")
    IN  IF c.user_hot <= c.user_cold
        THEN Result("False", "",
                    AddError(c.errors, "user_hot",
                        <<"Hot temperature must be greater than Cold temperature.">>),
                    c.session, rules)
        ELSE CityRule([c EXCEPT !.rules = rules])

\* StateRule with the branch for the other countries lost.
StateRule_UsOnly(c) ==
    LET rules == Append(c.rules, "state_applicability")
    IN  IF c.country = USA /\ c.state = ""
        THEN Result("False", "",
                    AddError(c.errors, "state",
                        <<"Please select a U.S. state.">>),
                    c.session, rules)
        ELSE TemperatureRule([c EXCEPT !.rules = rules])

\* USA STATE RULE.
StateRule(c) ==
    LET rules == Append(c.rules, "state_applicability")
    IN  CASE c.country = USA /\ c.state = ""
                -> Result("False", "",
                          AddError(c.errors, "state",
                              <<"Please select a U.S. state.">>),
                          c.session, rules)
          [] c.country # USA /\ c.state # ""
                -> Result("False", "",
                          AddError(c.errors, "state",
                              <<"State should only be selected for the United States.">>),
                          c.session, rules)
          [] OTHER -> TemperatureRule([c EXCEPT !.rules = rules])

\* super().validate(): every field's own validators; all fields are run.
FieldErrors(sub) ==
    [f \in Fields |->
        CASE f = "country" ->
                IF sub.country \notin country_choices
                THEN <<<<"Not a valid choice.">>>>
                ELSE IF Strip(sub.country) = ""
                THEN <<<<"Please select a country.">>>>
                ELSE <<>>
          [] f = "state" ->
                IF sub.state \notin state_choices
                THEN <<<<"Not a valid choice.">>>>
                ELSE <<>>
          [] f = "city" ->
                IF sub.city = ""
                THEN <<<<"Please enter a city.">>>>
                ELSE IF Len(sub.city) > 50
                THEN <<<<"Field cannot be longer than 50 characters.">>>>
                ELSE <<>>
          [] OTHER ->
                (IF ParseInt(sub[f]) = {}
                 THEN <<<<"Not a valid integer value.">>>> ELSE <<>>)
                \o (IF sub[f] = ""
                    THEN <<<<"Please enter a temperature.">>>> ELSE <<>>)]

TheInt(parsed) == CHOOSE n \in parsed : TRUE

\* WeatherQuizForm.validate(self): sub is the posted data, g the answer the
\* geocoder gives if it is asked, sess the session at the call.
Validate(sub, g, sess) ==
    LET errors == FieldErrors(sub)
    IN  IF errors # NoErrors
        THEN Result("False", "", errors, sess, <<"required_fields">>)
        ELSE StateRule(
                [city      |-> Strip(sub.city),
                 country   |-> Strip(sub.country),
                 state     |-> IF sub.state # "" THEN Strip(sub.state) ELSE "",
                 user_hot  |-> TheInt(ParseInt(sub.user_hot)),
                 user_cold |-> TheInt(ParseInt(sub.user_cold)),
                 g         |-> g,
                 session   |-> sess,
                 errors    |-> errors,
                 rules     |-> <<"required_fields">>])

\* Whether validate reaches the geocoding request for this submission.
CallsGeocoder(sub) ==
    \E i \in DOMAIN Validate(sub, NoGeo, EmptySession).rules :
        Validate(sub, NoGeo, EmptySession).rules[i] = "geocoding"

(***************************************************************************)
(* get_activity_tips.                                                      *)
(***************************************************************************)
\* The keywords get_activity_tips looks for that are substrings of the
\* lowercased description.
KeywordsIn(desc) ==
    CASE desc = "light rain"             -> {"rain"}
      [] desc = "snow"                   -> {"snow"}
      [] desc = "thunderstorm with rain" -> {"rain", "storm", "thunder"}
      [] desc = "windy"                  -> {"wind"}
      [] OTHER                           -> {}

\* description.lower().
LowerDescription(description) ==
    CASE description = "Light Rain" -> "light rain"
      [] description = "SNOW"       -> "snow"
      [] OTHER                      -> description

\* BucketTips with the hot bucket checked before the cold one.
BucketTips_HotFirst(temp_f, user_hot, user_cold) ==
    IF user_hot # {} /\ temp_f >= 10 * TheInt(user_hot)
    THEN <<"Stay hydrated", "Avoid peak sun hours">>
    ELSE IF user_cold # {} /\ temp_f <= 10 * TheInt(user_cold)
    THEN <<"Bundle up/Wear warm clothes", "Limit time outdoors">>
    ELSE <<"Comfortable for outdoor activities">>

\* The threshold-bucket tips.  temp_f is in tenths of a degree; user_hot and
\* user_cold are {} (None) or {whole degrees}.
BucketTips(temp_f, user_hot, user_cold) ==
    IF user_cold # {} /\ temp_f <= 10 * TheInt(user_cold)
    THEN <<"Bundle up/Wear warm clothes", "Limit time outdoors">>
    ELSE IF user_hot # {} /\ temp_f >= 10 * TheInt(user_hot)
    THEN <<"Stay hydrated", "Avoid peak sun hours">>
    ELSE <<"Comfortable for outdoor activities">>

\* The condition-based tips, in the order the code checks them (the wind
\* tip's dash is written in ASCII here).
ConditionTips(desc) ==
    (IF "rain" \in KeywordsIn(desc) THEN <<"Bring an umbrella">> ELSE <<>>)
    \o (IF "snow" \in KeywordsIn(desc) THEN <<"Drive carefully">> ELSE <<>>)
    \o (IF "wind" \in KeywordsIn(desc)
        THEN <<"Windy - secure loose items">> ELSE <<>>)
    \o (IF "storm" \in KeywordsIn(desc) \/ "thunder" \in KeywordsIn(desc)
        THEN <<"Stay indoors if possible">> ELSE <<>>)

get_activity_tips(temp_f, description, user_hot, user_cold) ==
    BucketTips(temp_f, user_hot, user_cold)
    \o ConditionTips(LowerDescription(description))

(***************************************************************************)
(* get_forecast.                                                           *)
(***************************************************************************)
\* round(n / d, 0) for d > 0: to the nearest integer, a tie to the even one.
RoundDiv(n, d) ==
    LET q == n \div d
        r == n % d
    IN  IF 2 * r < d THEN q
        ELSE IF 2 * r > d THEN q + 1
        ELSE IF q % 2 = 0 THEN q ELSE q + 1

\* round((temp_k - 273.15) * 9 / 5 + 32, 1): hundredths of a kelvin to
\* tenths of a degree Fahrenheit.
KelvinToF(temp_k) == RoundDiv((temp_k - 27315) * 9 + 16000, 50)

\* datetime.strptime(dt_txt, ...).date(): dt_txt is <<day, hour>>.
DateOf(dt_txt) == dt_txt[1]

\* One ForecastDay, from the entry that opens its date.
ForecastDay(entry, user_hot, user_cold) ==
    [date        |-> DateOf(entry.dt_txt),
     temp_f      |-> KelvinToF(entry.temp_k),
     description |-> entry.description,
     icon        |-> entry.icon,
     tips        |-> get_activity_tips(KelvinToF(entry.temp_k),
                                       entry.description, user_hot, user_cold)]

\* The dates captured so far (the keys of the forecasts dict).
Dates(forecasts) == {forecasts[i].date : i \in DOMAIN forecasts}

\* Reading one entry of a new date: "" when it has every member the loop
\* reads, else the exception the first missing one raises.
EntryFault(entry) ==
    CASE entry.shape = "no_main_temp"   -> "KeyError"
      [] entry.shape = "no_weather"     -> "KeyError"
      [] entry.shape = "empty_weather"  -> "IndexError"
      [] entry.shape = "no_description" -> "KeyError"
      [] OTHER                          -> ""

\* Whether the loop stops after adding a day.
Enough(forecasts, max_days) == Len(forecasts) >= max_days

\* The for loop over data["list"], from entry i on; forecasts is the dict's
\* values in insertion order.
RECURSIVE ScanEntries(_, _, _, _, _, _, _)
ScanEntries(entries, i, forecasts, today, user_hot, user_cold, max_days) ==
    IF i > Len(entries)
    THEN [ret |-> "list", exc |-> "", days |-> forecasts]
    ELSE
        LET entry == entries[i]
        IN  CASE entry.shape = "no_dt_txt" ->
                    [ret |-> "raise", exc |-> "KeyError", days |-> <<>>]
              [] entry.shape = "bad_dt_txt" ->
                    [ret |-> "raise", exc |-> "ValueError", days |-> <<>>]
              [] DateOf(entry.dt_txt) = today
                 \/ DateOf(entry.dt_txt) \in Dates(forecasts) ->
                    ScanEntries(entries, i + 1, forecasts, today,
                                user_hot, user_cold, max_days)
              [] EntryFault(entry) # "" ->
                    [ret |-> "raise", exc |-> EntryFault(entry), days |-> <<>>]
              [] OTHER ->
                    LET added == Append(forecasts,
                                        ForecastDay(entry, user_hot, user_cold))
                    IN  IF Enough(added, max_days)
                        THEN [ret |-> "list", exc |-> "", days |-> added]
                        ELSE ScanEntries(entries, i + 1, added, today,
                                         user_hot, user_cold, max_days)

\* get_forecast(lat, lon, api_key, user_hot, user_cold, max_days) when the
\* forecast collaborator answers `payload` on the calendar date `today`.
\* ret: "None" (the unavailable sentinel), "list", or "raise".
get_forecast(payload, today, user_hot, user_cold, max_days) ==
    CASE payload.kind \in {"timeout", "http_error", "not_json"} ->
            [ret |-> "None", exc |-> "", days |-> <<>>]
      [] payload.shape # "obj" ->
            [ret |-> "raise", exc |-> "AttributeError", days |-> <<>>]
      [] payload.list = "absent" ->
            [ret |-> "list", exc |-> "", days |-> <<>>]
      [] payload.list = "null" ->
            [ret |-> "raise", exc |-> "TypeError", days |-> <<>>]
      [] OTHER ->
            ScanEntries(payload.entries, 1, <<>>, today,
                        user_hot, user_cold, max_days)

(***************************************************************************)
(* Bounds and inputs of the direct calls.                                  *)
(***************************************************************************)
MaxEntries == 3     \* the longest forecast list a call is given
MaxDay == 3         \* calendar dates are 0 .. MaxDay
MaxDaysArg == 2     \* max_days ranges over 0 .. MaxDaysArg

\* date.today(): date 0 is yesterday, dates 2 .. MaxDay are future days.
Today == 1

\* The default of get_forecast's max_days parameter.
DefaultMaxDays == 5

\* A well-formed interval entry of date d: the morning one or the afternoon
\* one (temp_k in hundredths of a kelvin; icon is optional).
Morning(d) ==
    [shape |-> "ok", dt_txt |-> <<d, 9>>, temp_k |-> 26000,
     description |-> "light rain", icon |-> {"10d"}]

Afternoon(d) ==
    [shape |-> "ok", dt_txt |-> <<d, 15>>, temp_k |-> 31000,
     description |-> "clear sky", icon |-> {}]

GoodEntries == {Morning(d) : d \in 0..MaxDay} \cup {Afternoon(d) : d \in 0..MaxDay}

\* Entries of unexpected shape: without a usable timestamp, or dated today
\* or tomorrow and lacking a member the loop reads after the timestamp.
BadEntries ==
    {[Morning(Today) EXCEPT !.shape = s] : s \in {"no_dt_txt", "bad_dt_txt"}}
    \cup
    {[Morning(d) EXCEPT !.shape = s] :
        d \in {Today, Today + 1},
        s \in {"no_main_temp", "no_weather", "empty_weather", "no_description"}}

Entries == GoodEntries \cup BadEntries

EntryLists == UNION {[1..n -> Entries] : n \in 0..MaxEntries}

NoPayload == [kind |-> "-", shape |-> "-", list |-> "-", entries |-> <<>>]

OddPayloads ==
    {[NoPayload EXCEPT !.kind = k] : k \in {"timeout", "http_error", "not_json"}}
    \cup {[NoPayload EXCEPT !.kind = "json", !.shape = s] : s \in {"list", "null"}}
    \cup {[NoPayload EXCEPT !.kind = "json", !.shape = "obj", !.list = l] :
            l \in {"absent", "null"}}

ListPayload(entries) ==
    [kind |-> "json", shape |-> "obj", list |-> "seq", entries |-> entries]

Payloads == OddPayloads \cup {ListPayload(es) : es \in EntryLists}

\* The payloads the results handler meets in the web flow.
SamplePayloads ==
    OddPayloads
    \cup {ListPayload(<<Morning(Today), Morning(Today + 1),
                        Afternoon(Today + 1), Afternoon(Today + 2)>>),
          ListPayload(<<Morning(Today + 1),
                        [Morning(Today + 2) EXCEPT !.shape = "empty_weather"]>>)}

NoCall == [fn |-> "none"]

NotCalled == [ret |-> "not_called"]

ForecastCalls ==
    [fn : {"get_forecast"}, payload : Payloads, today : {Today},
     user_hot : {{85}}, user_cold : {{40}}, max_days : 0..MaxDaysArg]

TipCalls ==
    [fn : {"get_activity_tips"},
     temp_f : {0 - 50, 399, 400, 401, 713, 849, 850, 851, 983},
     description : {"Light Rain", "SNOW", "clear sky",
                    "thunderstorm with rain", "windy"},
     user_hot : {{}, {30}, {40}, {85}},
     user_cold : {{}, {40}, {85}, {90}}]

(***************************************************************************)
(* The web flow: requests arrive, the two handlers answer them.            *)
(***************************************************************************)
NoRequest == [kind |-> "none", sub |-> [f \in Fields |-> ""]]

NoResponse ==
    [status |-> "none", ret |-> "-", exc |-> "", data |-> NoRequest.sub,
     errors |-> NoErrors, rules |-> <<>>, geo |-> NoGeo,
     error |-> "", weather |-> {}]

Init ==
    /\ session = EmptySession
    /\ req = NoRequest
    /\ resp = NoResponse
    /\ call = NoCall
    /\ out = NotCalled

\* The browser posts the quiz form.
Post(sub) ==
    /\ req.kind = "none"
    /\ req' = [kind |-> "post", sub |-> sub]
    /\ resp' = NoResponse
    /\ UNCHANGED <<session, call, out>>

\* The browser asks for the results page.
GetResults ==
    /\ req.kind = "none"
    /\ req' = [NoRequest EXCEPT !.kind = "get_results"]
    /\ resp' = NoResponse
    /\ UNCHANGED <<session, call, out>>

\* form.validate_on_submit() and what home() does with its answer.  An
\* exception leaving validate makes the framework answer 500; the session
\* is saved with every response.
HomeResponse(sub, g, v) ==
    [NoResponse EXCEPT
        !.status = CASE v.ret = "True"  -> "redirect"
                     [] v.ret = "False" -> "form"
                     [] OTHER           -> "server_error",
        !.ret = v.ret, !.exc = v.exc, !.data = sub, !.errors = v.errors,
        !.rules = v.rules, !.geo = g]

HomeSession(sub, v) ==
    IF v.ret = "True"
    THEN [v.session EXCEPT !["user_hot"] = ParseInt(sub.user_hot),
                           !["user_cold"] = ParseInt(sub.user_cold)]
    ELSE v.session

home ==
    /\ req.kind = "post"
    /\ \E g \in (IF CallsGeocoder(req.sub) THEN GeoOutcomes ELSE {NoGeo}) :
          LET v == Validate(req.sub, g, session)
          IN  /\ session' = HomeSession(req.sub, v)
              /\ resp' = HomeResponse(req.sub, g, v)
    /\ req' = NoRequest
    /\ UNCHANGED <<call, out>>

\* results(): the view it renders for a forecast answer f.
ResultsResponse(sess, f) ==
    CASE sess["lat"] = {} \/ sess["lon"] = {} ->
            [NoResponse EXCEPT !.status = "results",
                !.error = "Location could not be validated. Please try again."]
      [] f.ret = "None" ->
            [NoResponse EXCEPT !.status = "results",
                !.error = "Could not fetch weather data. Try again later."]
      [] f.ret = "raise" ->
            [NoResponse EXCEPT !.status = "server_error", !.exc = f.exc]
      [] OTHER ->
            [NoResponse EXCEPT !.status = "results",
                !.weather = {[state |-> sess["state"], city |-> sess["city"],
                              country |-> sess["country"],
                              forecast |-> f.days]}]

results ==
    /\ req.kind = "get_results"
    /\ \E payload \in SamplePayloads :
          resp' = ResultsResponse(session,
                      get_forecast(payload, Today, session["user_hot"],
                                   session["user_cold"], DefaultMaxDays))
    /\ req' = NoRequest
    /\ UNCHANGED <<session, call, out>>

Next ==
    \/ \E sub \in Submissions : Post(sub)
    \/ GetResults
    \/ home
    \/ results

Spec == Init /\ [][Next]_vars

(***************************************************************************)
(* Direct calls of the two functions, on every input within the bounds.    *)
(***************************************************************************)
InitForecast ==
    /\ session = EmptySession
    /\ req = NoRequest
    /\ resp = NoResponse
    /\ call \in ForecastCalls
    /\ out = NotCalled

CallGetForecast ==
    /\ call.fn = "get_forecast"
    /\ out = NotCalled
    /\ out' = get_forecast(call.payload, call.today, call.user_hot,
                           call.user_cold, call.max_days)
    /\ UNCHANGED <<session, req, resp, call>>

NextForecast == CallGetForecast

SpecForecast == InitForecast /\ [][NextForecast]_vars

InitTips ==
    /\ session = EmptySession
    /\ req = NoRequest
    /\ resp = NoResponse
    /\ call \in TipCalls
    /\ out = NotCalled

CallGetActivityTips ==
    /\ call.fn = "get_activity_tips"
    /\ out = NotCalled
    /\ out' = [ret |-> "list",
               tips |-> get_activity_tips(call.temp_f, call.description,
                                          call.user_hot, call.user_cold)]
    /\ UNCHANGED <<session, req, resp, call>>

NextTips == CallGetActivityTips

SpecTips == InitTips /\ [][NextTips]_vars

(***************************************************************************)
(* Properties.                                                             *)
(***************************************************************************)
\* The response in hand is home()'s answer to a posted form.
Validated == resp.ret # "-"

Elements(seq) == {seq[i] : i \in DOMAIN seq}

LocationKeys == {"lat", "lon", "city", "country", "state"}

SubmittedHot == TheInt(ParseInt(resp.data.user_hot))

SubmittedCold == TheInt(ParseInt(resp.data.user_cold))

PassedRequiredFields == FieldErrors(resp.data) = NoErrors

\* C1: whenever validate returns False, the call has changed none of the
\* session keys lat, lon, city, country, state.
C1_FalseLeavesSessionUntouched ==
    [][(req.kind = "post" /\ resp'.ret = "False")
        => \A k \in LocationKeys : session'[k] = session[k]]_vars

\* The payload shapes C2 lists as failures.
UnexpectedPayload(payload) ==
    \/ payload.kind \in {"timeout", "http_error", "not_json"}
    \/ payload.shape # "obj"
    \/ \E i \in DOMAIN payload.entries : payload.entries[i].shape # "ok"

\* C2: for every transport error, non-success status and payload of
\* unexpected shape, get_forecast returns None: it neither raises nor
\* returns a list.
C2_FailureYieldsNone ==
    (call.fn = "get_forecast" /\ out.ret # "not_called"
     /\ UnexpectedPayload(call.payload))
        => out.ret = "None"

\* The geocoding outcomes C3 lists.
GeocodingWentWrong(g) ==
    \/ g.kind \in {"timeout", "http_error", "not_json"}
    \/ /\ g.kind = "json"
       /\ \/ g.shape \in {"null", "obj"}
          \/ g.cand = "str"
          \/ g.address \in {"absent", "null"}
          \/ g.country_code = "null"
          \/ g.lat = "null"
          \/ g.lon = "null"

\* C3: for every failed or oddly shaped answer of the geocoder, validate
\* returns False with an error on the city field, and raises nothing.
C3_GeocodingFailureIsCityError ==
    (Validated /\ GeocodingWentWrong(resp.geo))
        => (resp.ret = "False" /\ resp.errors["city"] # <<>>)

HotMessage == <<"Hot temperature must be greater than Cold temperature.">>

StateRuleHolds ==
    (Strip(resp.data.country) = USA) <=> (resp.data.state # "")

\* C4 as stated: every submission that passes the required-field checks
\* with hot <= cold fails with the error on user_hot, whatever its country,
\* state and city.
C4_HotNotAboveColdFailsOnHot ==
    (Validated /\ PassedRequiredFields /\ SubmittedHot <= SubmittedCold)
        => (resp.ret = "False" /\ resp.errors["user_hot"] # <<>>)

\* C4 amended: such a submission always fails; the error is on user_hot,
\* and only there, when the state-applicability rule is satisfied, and on
\* the state field, and only there, when it is not.
C4_HotNotAboveColdFails ==
    (Validated /\ PassedRequiredFields /\ SubmittedHot <= SubmittedCold)
        => /\ resp.ret = "False"
           /\ StateRuleHolds =>
                resp.errors = AddError(NoErrors, "user_hot", HotMessage)
           /\ ~StateRuleHolds =>
                /\ resp.errors["user_hot"] = <<>>
                /\ Len(resp.errors["state"]) = 1
                /\ \A f \in Fields \ {"state"} : resp.errors[f] = <<>>

C4_Witness ==
    /\ Validated /\ PassedRequiredFields
    /\ SubmittedHot = SubmittedCold
    /\ resp.data.country = USA /\ resp.data.state = "Texas"
    /\ resp.ret = "False"
    /\ resp.errors["user_hot"] = <<HotMessage>>

\* The dates other than today among the entries of the payload.
AvailableDates ==
    {DateOf(call.payload.entries[i].dt_txt) : i \in DOMAIN call.payload.entries}
    \ {call.today}

\* C5: the returned list has at most max_days entries, and exactly max_days
\* when at least max_days distinct dates other than today are available.
C5_LengthIsCapped ==
    (call.fn = "get_forecast" /\ out.ret = "list")
        => /\ Len(out.days) <= call.max_days
           /\ Cardinality(AvailableDates) >= call.max_days
                => Len(out.days) = call.max_days

\* The first entry of the payload dated d.
FirstOfDate(d) ==
    LET es == call.payload.entries
    IN  es[CHOOSE i \in DOMAIN es :
                /\ DateOf(es[i].dt_txt) = d
                /\ \A j \in 1..(i - 1) : DateOf(es[j].dt_txt) # d]

\* C6: the returned list holds one entry per date, every date later than
\* today, each built from the first interval of its date.
C6_OnePerFutureDate ==
    (call.fn = "get_forecast" /\ out.ret = "list")
        => /\ \A i, j \in DOMAIN out.days :
                out.days[i].date = out.days[j].date => i = j
           /\ \A i \in DOMAIN out.days :
                /\ out.days[i].date > call.today
                /\ out.days[i].temp_f
                     = KelvinToF(FirstOfDate(out.days[i].date).temp_k)
                /\ out.days[i].description
                     = FirstOfDate(out.days[i].date).description

ColdTips == {"Bundle up/Wear warm clothes", "Limit time outdoors"}

HotTips == {"Stay hydrated", "Avoid peak sun hours"}

ColdTriggered ==
    call.user_cold # {} /\ \E t \in call.user_cold : call.temp_f <= 10 * t

HotTriggered ==
    call.user_hot # {} /\ \E t \in call.user_hot : call.temp_f >= 10 * t

\* C7: the buckets exclude one another, cold first: a temperature at or
\* below the cold threshold gives the two cold tips first and no hot tip,
\* even when it is at or above the hot threshold too; else one at or above
\* the hot threshold gives the two hot tips first and no cold tip; else the
\* list starts with the comfortable tip.
C7_BucketsExclusiveColdFirst ==
    (call.fn = "get_activity_tips" /\ out.ret = "list")
        => /\ ColdTriggered =>
                /\ SubSeq(out.tips, 1, 2)
                     = <<"Bundle up/Wear warm clothes", "Limit time outdoors">>
                /\ Elements(out.tips) \cap HotTips = {}
           /\ (HotTriggered /\ ~ColdTriggered) =>
                /\ SubSeq(out.tips, 1, 2)
                     = <<"Stay hydrated", "Avoid peak sun hours">>
                /\ Elements(out.tips) \cap ColdTips = {}
           /\ (~HotTriggered /\ ~ColdTriggered) =>
                /\ out.tips[1] = "Comfortable for outdoor activities"
                /\ Elements(out.tips) \cap (ColdTips \cup HotTips) = {}

C7_Witness ==
    /\ call.fn = "get_activity_tips" /\ out.ret = "list"
    /\ ColdTriggered /\ HotTriggered
    /\ call.description = "thunderstorm with rain"
    /\ Len(out.tips) = 4

\* The country code of the first candidate, lowercased: {} when it has none.
ResolvedCode(g) ==
    IF g.address = "obj" /\ g.country_code \notin {"absent", "null"}
    THEN {Lower(g.country_code)} ELSE {}

\* The CountryIndex code of the submitted country: {} when it has none.
IndexCode(country) ==
    IF country \in DOMAIN COUNTRY_TO_ISO /\ COUNTRY_TO_ISO[country] # ""
    THEN {COUNTRY_TO_ISO[country]} ELSE {}

\* C8: for a country other than the U.S. whose geocoding gave a first
\* candidate, validation succeeds only if the country has an ISO code and
\* the candidate's country code equals it, case ignored; a mismatch gives
\* the "not a city in" error on the city field, and a country without ISO
\* code gives the configuration error on the city field.
C8_CountryCrossCheck ==
    (Validated /\ PassedRequiredFields /\ Strip(resp.data.country) # USA
     /\ resp.geo.cand = "obj")
        => LET country == Strip(resp.data.country)
               city    == Strip(resp.data.city)
           IN  /\ resp.ret = "True" =>
                    /\ IndexCode(country) # {}
                    /\ ResolvedCode(resp.geo) = IndexCode(country)
               /\ (IndexCode(country) # {}
                   /\ ResolvedCode(resp.geo) # IndexCode(country)) =>
                    /\ resp.ret = "False"
                    /\ resp.errors["city"]
                         = <<<<city, " is not a city in ", country, ". ">>>>
               /\ IndexCode(country) = {} =>
                    /\ resp.ret = "False"
                    /\ resp.errors["city"]
                         = <<<<"Country validation configuration error.">>>>

\* C9: a country other than the U.S. with a state fails, the U.S. without
\* a state fails, and the location in the session is either unset, or a
\* U.S. state with one of its cities, or another country with no state.
C9_StateAppliesToUsOnly ==
    /\ (Validated /\ Strip(resp.data.country) # USA /\ resp.data.state # "")
            => resp.ret = "False"
    /\ (Validated /\ Strip(resp.data.country) = USA /\ resp.data.state = "")
            => resp.ret = "False"
    /\ session["country"] = {USA} =>
            \E st \in DOMAIN us_cities :
                /\ session["state"] = {st}
                /\ session["city"] \subseteq us_cities[st]
                /\ session["city"] # {}
    /\ (session["country"] # {} /\ session["country"] # {USA})
            => session["state"] = {""}
    /\ session["country"] = {}
            => (session["state"] = {} /\ session["city"] = {})

C9_Witness ==
    /\ session["country"] = {USA} /\ session["state"] = {"Texas"}
    /\ Validated /\ resp.data.country = "France" /\ resp.data.state = "Texas"
    /\ resp.ret = "False"

RuleOrder ==
    <<"required_fields", "state_applicability", "threshold_order",
      "city_membership", "geocoding", "cross_check", "store">>

\* Whether the submission and the geocoder's answer in hand pass a rule,
\* stated from the rules' definitions in the specification.
Passes(rule) ==
    LET country == Strip(resp.data.country)
        city    == Strip(resp.data.city)
        g       == resp.geo
    IN  CASE rule = "required_fields"     -> PassedRequiredFields
          [] rule = "state_applicability" -> StateRuleHolds
          [] rule = "threshold_order"     -> SubmittedHot > SubmittedCold
          [] rule = "city_membership"     ->
                country = USA => city \in ValidCities(resp.data.state)
          [] rule = "geocoding"           ->
                g.kind = "json" /\ g.shape \in {"obj", "list"}
          [] rule = "cross_check"         ->
                /\ g.shape = "list" /\ g.cand = "obj"
                /\ g.address # "null" /\ g.country_code # "null"
                /\ country # USA =>
                     (IndexCode(country) # {}
                      /\ IndexCode(country) = ResolvedCode(g))
          [] OTHER                        -> resp.ret = "True"

ErrorCount == 
    Len(resp.errors["country"]) + Len(resp.errors["state"])
    + Len(resp.errors["city"]) + Len(resp.errors["user_hot"])
    + Len(resp.errors["user_cold"])

\* C10: the rules are evaluated in the fixed order, each only if all the
\* earlier ones passed; the geocoder is asked only after the four local
\* rules passed; and the rules after the required-field checks append at
\* most one error message.
C10_FailFastInOrder ==
    Validated
        => /\ Len(resp.rules) <= Len(RuleOrder)
           /\ \A i \in DOMAIN resp.rules :
                /\ resp.rules[i] = RuleOrder[i]
                /\ \A j \in 1..(i - 1) : Passes(RuleOrder[j])
           /\ resp.geo # NoGeo =>
                /\ Len(resp.rules) >= 5
                /\ \A j \in 1..4 : Passes(RuleOrder[j])
           /\ resp.geo = NoGeo => Len(resp.rules) < 5
           /\ PassedRequiredFields => ErrorCount <= 1
           /\ ~PassedRequiredFields => resp.errors = FieldErrors(resp.data)

C10_Witness ==
    /\ Validated
    /\ resp.rules = RuleOrder
    /\ resp.ret = "False"
    /\ ErrorCount = 1

====
